---- MODULE Spec2Model ----
(***************************************************************************)
(* A model of scripts/enhance_tools_git.py: the catalog enricher           *)
(* (enhance_data), the two metadata fetchers (fetch_github_meta,           *)
(* fetch_gitlab_meta), the retry primitive (retry_request) and the pure    *)
(* helpers (normalize_category, parse_repo_info, safe_get_json), under     *)
(* Spec and FairSpec; the two helpers called on their own, under PureSpec; *)
(* and core/update_versions.py, the version-check script, under            *)
(* UpdateSpec.                                                             *)
(*                                                                         *)
(* Python strings whose characters the code inspects or rewrites (category *)
(* names, versions, URLs, repository paths) are sequences of one-character *)
(* strings, so that lower(), strip(), replace() and the substring test are *)
(* computed character by character.  Dictionary keys and field names, which *)
(* the code only looks up, are TLA+ strings.                               *)
(*                                                                         *)
(* Python values of different types meet in one dictionary (None, str,     *)
(* list, int, bool, dict); each is a tagged record.                        *)
(***************************************************************************)
EXTENDS Integers, Sequences, FiniteSets, TLC

\* ------------------------------------------------------------------------
\* Python values
\* ------------------------------------------------------------------------

None == [k |-> "none"]
Str(s) == [k |-> "str", s |-> s]
List(l) == [k |-> "list", l |-> l]
Num(n) == [k |-> "int", n |-> n]
Bool(b) == [k |-> "bool", b |-> b]
Dict(d) == [k |-> "dict", d |-> d]

\* A variable that no assignment has reached yet.
Unset == [k |-> "unset"]

\* The empty dictionary {} and the empty function it is modelled by.
EmptyMap == [f \in {} |-> None]

\* Python truthiness of a value (`if not cat`, `if not url`,
\* `data.get("license") or {}`, `if meta.get("latest_version")`).
Truthy(v) ==
    CASE v.k = "none" -> FALSE
      [] v.k = "str"  -> Len(v.s) > 0
      [] v.k = "list" -> Len(v.l) > 0
      [] v.k = "int"  -> v.n # 0
      [] v.k = "bool" -> v.b
      [] v.k = "dict" -> DOMAIN v.d # {}

\* dict.get(key, default)
Get(d, key, default) == IF key \in DOMAIN d THEN d[key] ELSE default

\* d[key] = value
SetItem(d, key, value) ==
    [f \in DOMAIN d \cup {key} |-> IF f = key THEN value ELSE d[f]]

Range(s) == {s[j] : j \in DOMAIN s}

\* F(v), with v evaluated once before F is applied to its value.
Bind(v, F(_)) == CHOOSE y \in {F(x) : x \in {v}} : TRUE

\* ------------------------------------------------------------------------
\* Python string methods, on sequences of characters
\* ------------------------------------------------------------------------

UpperChars ==
    <<"A", "B", "C", "D", "E", "F", "G", "H", "I", "J", "K", "L", "M",
      "N", "O", "P", "Q", "R", "S", "T", "U", "V", "W", "X", "Y", "Z">>

LowerChars ==
    <<"a", "b", "c", "d", "e", "f", "g", "h", "i", "j", "k", "l", "m",
      "n", "o", "p", "q", "r", "s", "t", "u", "v", "w", "x", "y", "z">>

Whitespace == {" ", "\t", "\n", "\r", "\f"}

LowerChar(c) ==
    IF \E j \in DOMAIN UpperChars : UpperChars[j] = c
    THEN LowerChars[CHOOSE j \in DOMAIN UpperChars : UpperChars[j] = c]
    ELSE c

\* str.lower()
Lower(s) == Bind(s, LAMBDA v : [j \in DOMAIN v |-> LowerChar(v[j])])

\* str.strip(chars): every leading and trailing character of the set goes,
\* that is, what stands from the first to the last character outside it.
StripChars(s, chars) ==
    Bind(s, LAMBDA v :
    Bind({j \in DOMAIN v : v[j] \notin chars}, LAMBDA keep :
        IF keep = {} THEN <<>>
        ELSE SubSeq(v, CHOOSE j \in keep : \A h \in keep : j <= h,
                       CHOOSE j \in keep : \A h \in keep : j >= h)))

\* str.strip()
Strip(s) == StripChars(s, Whitespace)

\* old in s (substring test)
Contains(s, old) ==
    Bind(s, LAMBDA v :
        \E j \in 1..(Len(v) - Len(old) + 1) :
            SubSeq(v, j, j + Len(old) - 1) = old)

\* str.replace(old, new) for a non-empty old: every non-overlapping
\* occurrence, left to right, wherever it stands in s.  R[j] is the result
\* for s from its j-th character on.
Replace(s, old, new) ==
    Bind(s, LAMBDA v :
        LET R[j \in 1..(Len(v) + 1)] ==
                IF j > Len(v) THEN <<>>
                ELSE IF /\ j + Len(old) - 1 <= Len(v)
                        /\ SubSeq(v, j, j + Len(old) - 1) = old
                     THEN new \o R[j + Len(old)]
                     ELSE <<v[j]>> \o R[j + 1]
        IN  R[1])

\* The least index >= from of a character of the set in s, Len(s) + 1 if none.
FindAny(s, chars, from) ==
    Bind(s, LAMBDA v :
    Bind({j \in from..Len(v) : v[j] \in chars}, LAMBDA hits :
        IF hits = {} THEN Len(v) + 1
        ELSE CHOOSE j \in hits : \A h \in hits : j <= h))

\* ------------------------------------------------------------------------
\* Configuration (enhance_tools_git.py, lines 15-41)
\* ------------------------------------------------------------------------

RATE_LIMIT_WAIT == 60
MAX_RETRIES == 3

\* retry_request's default first backoff, `wait=2`.
DefaultWait == 2

S_uncategorized == <<"u", "n", "c", "a", "t", "e", "g", "o", "r", "i", "z", "e", "d">>
S_latest == <<"l", "a", "t", "e", "s", "t">>
S_unknown == <<"u", "n", "k", "n", "o", "w", "n">>
S_github_com == <<"g", "i", "t", "h", "u", "b", ".", "c", "o", "m">>
S_gitlab_com == <<"g", "i", "t", "l", "a", "b", ".", "c", "o", "m">>
S_dot_git == <<".", "g", "i", "t">>
S_pct2F == <<"%", "2", "F">>

\* A synonym table in which a synonym leads to another synonym.
CATEGORY_MAP_Chained ==
       (<<"t", "e", "r", "m", "u", "x", " ", "o", "s">> :> <<"t", "e", "r", "m", "u", "x", "_", "o", "s">>)
    @@ (<<"t", "e", "r", "m", "u", "x", "_", "o", "s">> :> <<"t", "e", "r", "m", "u", "x">>)
    @@ (<<"w", "i", "r", "e", "l", "e", "s", "s", "_", "t", "o", "o", "l", "s">> :> <<"w", "i", "r", "e", "l", "e", "s", "s">>)
CATEGORY_MAP ==
       (<<"t", "e", "r", "m", "u", "x", " ", "o", "s">> :> <<"t", "e", "r", "m", "u", "x">>)
    @@ (<<"t", "e", "r", "m", "u", "x", "_", "o", "s">> :> <<"t", "e", "r", "m", "u", "x">>)
    @@ (<<"w", "i", "r", "e", "l", "e", "s", "s", "_", "t", "o", "o", "l", "s">> :> <<"w", "i", "r", "e", "l", "e", "s", "s">>)
    @@ (<<"w", "i", "r", "e", "l", "e", "s", "s", "_", "t", "e", "s", "t", "i", "n", "g">> :> <<"w", "i", "r", "e", "l", "e", "s", "s">>)
    @@ (<<"i", "n", "f", "o", "r", "m", "a", "t", "i", "o", "n", " ", "g", "a", "t", "h", "e", "r", "i", "n", "g">> :> <<"i", "n", "f", "o", "r", "m", "a", "t", "i", "o", "n", "_", "g", "a", "t", "h", "e", "r", "i", "n", "g">>)
    @@ (<<"p", "a", "s", "s", "w", "o", "r", "d", " ", "a", "t", "t", "a", "c", "k", "s">> :> <<"p", "a", "s", "s", "w", "o", "r", "d", "_", "a", "t", "t", "a", "c", "k">>)
    @@ (<<"d", "d", "o", "s", " ", "a", "t", "t", "a", "c", "k", "s">> :> <<"d", "d", "o", "s">>)
    @@ (<<"m", "a", "i", "n", "t", "a", "i", "n", "i", "n", "g", " ", "a", "c", "c", "e", "s", "s">> :> <<"m", "a", "i", "n", "t", "a", "i", "n", "i", "n", "g", "_", "a", "c", "c", "e", "s", "s">>)
    @@ (<<"f", "o", "r", "e", "n", "s", "i", "c", "s", " ", "t", "o", "o", "l", "s">> :> <<"f", "o", "r", "e", "n", "s", "i", "c", "s">>)
    @@ (<<"w", "e", "b", " ", "s", "e", "r", "v", "e", "r">> :> <<"w", "e", "b", "_", "s", "e", "r", "v", "e", "r">>)
    @@ (<<"w", "e", "b", " ", "s", "e", "r", "v", "e", "r", "'", "s">> :> <<"w", "e", "b", "_", "s", "e", "r", "v", "e", "r">>)
    @@ (<<"e", "x", "p", "l", "o", "i", "t", "a", "t", "i", "o", "n", " ", "t", "o", "o", "l", "s">> :> <<"e", "x", "p", "l", "o", "i", "t", "a", "t", "i", "o", "n">>)
    @@ (<<"v", "u", "l", "n", "e", "r", "a", "b", "i", "l", "i", "t", "y", " ", "s", "c", "a", "n", "n", "e", "r">> :> <<"v", "u", "l", "n", "e", "r", "a", "b", "i", "l", "i", "t", "y", "_", "s", "c", "a", "n", "n", "e", "r">>)
    @@ (<<"i", "p", "-", "t", "r", "a", "c", "k", "i", "n", "g", " ", "t", "o", "o", "l", "s">> :> <<"i", "p", "_", "t", "r", "a", "c", "k", "i", "n", "g">>)

\* ------------------------------------------------------------------------
\* normalize_category (lines 43-54)
\* ------------------------------------------------------------------------

\* The loop body, lines 51-52: strip, lower, then the synonym lookup.
NormalizeOne(c) ==
    LET x == Lower(Strip(c))
    IN  Get(CATEGORY_MAP, x, x)

\* list(set(normalized)), line 54: the elements of the list without
\* duplicates.  A Python set of strings iterates in an order that depends on
\* the interpreter's string hashing, so every order is a possible result.
DedupKeepAll(normalized) == {normalized}
Dedup(normalized) ==
    LET S == Range(normalized)
    IN  {l \in [1..Cardinality(S) -> S] : Range(l) = S}

\* The category given when there is none, line 46.
DefaultCategory == <<S_uncategorized>>

\* The set of lists normalize_category(cat) can return, for cat None, a
\* string or a list of strings.
normalize_category(cat) ==
    IF ~Truthy(cat) THEN {List(DefaultCategory)}
    ELSE LET l == IF cat.k = "str" THEN <<cat.s>> ELSE cat.l
             normalized == [j \in DOMAIN l |-> NormalizeOne(l[j])]
         IN  {List(x) : x \in Dedup(normalized)}

\* ------------------------------------------------------------------------
\* parse_repo_info (lines 56-67), with urllib.parse.urlparse
\* ------------------------------------------------------------------------

Letters == Range(UpperChars) \cup Range(LowerChars)

SchemeChars ==
    Letters \cup {"0", "1", "2", "3", "4", "5", "6", "7", "8", "9", "+", "-", "."}

\* urlparse(url).netloc and .path: the scheme is what stands before the first
\* ":" when that is a letter followed by scheme characters; the netloc is
\* what follows "//" up to the next "/", "?" or "#"; the path runs from there
\* to the first "?" or "#".  (The ";parameters" of the last path segment,
\* which urlparse also splits off, are not modelled: no URL here has one.)
urlparse(url) ==
    Bind(url, LAMBDA u :
    Bind(FindAny(u, {":"}, 1), LAMBDA colon :
    Bind(IF /\ colon > 1
            /\ colon <= Len(u)
            /\ u[1] \in Letters
            /\ \A j \in 1..(colon - 1) : u[j] \in SchemeChars
         THEN SubSeq(u, colon + 1, Len(u))
         ELSE u, LAMBDA rest :
    Bind(Len(rest) >= 2 /\ SubSeq(rest, 1, 2) = <<"/", "/">>, LAMBDA hasNetloc :
    Bind(FindAny(rest, {"/", "?", "#"}, 3), LAMBDA delim :
    Bind(IF hasNetloc THEN SubSeq(rest, delim, Len(rest)) ELSE rest, LAMBDA after :
        [netloc |-> IF hasNetloc THEN SubSeq(rest, 3, delim - 1) ELSE <<>>,
         path   |-> SubSeq(after, 1, FindAny(after, {"?", "#"}, 1) - 1)]))))))

\* The host tests of lines 61 and 64: `"github.com" in parsed.netloc`.
HostMatches(netloc, host) == Contains(netloc, host)

\* parsed.path.strip("/").replace(".git", ""), lines 62 and 65.
RepoPath(path) == Replace(StripChars(path, {"/"}), S_dot_git, <<>>)

\* parse_repo_info(url) for url None or a string: the pair (platform, path),
\* platform "none" and path None standing for Python's (None, None).
parse_repo_info(url) ==
    IF ~Truthy(url) THEN [platform |-> "none", path |-> None]
    ELSE Bind(urlparse(url.s), LAMBDA parsed :
            IF HostMatches(parsed.netloc, S_github_com)
            THEN [platform |-> "github", path |-> Str(RepoPath(parsed.path))]
            ELSE IF HostMatches(parsed.netloc, S_gitlab_com)
            THEN [platform |-> "gitlab",
                  path |-> Str(Replace(RepoPath(parsed.path), <<"/">>, S_pct2F))]
            ELSE [platform |-> "none", path |-> None])

\* ------------------------------------------------------------------------
\* The HTTP transport: what requests.get can do (line 81)
\* ------------------------------------------------------------------------

\* A requests.Response: its status code, its X-RateLimit-Remaining header
\* (None when the header is absent) and its body, which is either text that
\* is no JSON or the JSON value it parses to.
Response(status, remaining, body) ==
    [k |-> "response", status_code |-> status, remaining |-> remaining,
     body |-> body]

\* requests.get raised a requests.RequestException.
RequestError == [k |-> "error"]

InvalidJson == [k |-> "invalid"]

S_0 == <<"0">>
S_MIT == <<"M", "I", "T">>
S_v2_0_0 == <<"v", "2", ".", "0", ".", "0">>

\* The repository document of test_fetch_github_meta_mocked (test_update.py,
\* lines 73-78).
GithubRepoBody ==
    Dict([stargazers_count |-> Num(42), forks_count |-> Num(10),
          license |-> Dict([spdx_id |-> Str(S_MIT)]),
          archived |-> Bool(FALSE)])

\* A GitLab project document.
GitlabRepoBody ==
    Dict([star_count |-> Num(7), forks_count |-> Num(3),
          license |-> Dict([name |-> Str(S_MIT)]),
          archived |-> Bool(TRUE)])

\* A repository without license: "license": null, no other field.
BareRepoBody == Dict([license |-> None])

\* The release document of the test (line 72), and one with an empty tag.
ReleaseBody == Dict([tag_name |-> Str(S_v2_0_0)])
EmptyTagBody == Dict([tag_name |-> Str(<<>>)])

Bodies ==
    {InvalidJson, List(<<>>), GithubRepoBody, GitlabRepoBody, BareRepoBody,
     ReleaseBody, EmptyTagBody}

\* Every response the model lets a server give to any request.
Responses ==
    {Response(200, None, b) : b \in Bodies}
    \cup {Response(404, None, InvalidJson),
          Response(403, Str(S_0), InvalidJson),
          Response(403, None, InvalidJson),
          Response(429, None, InvalidJson),
          Response(500, None, InvalidJson)}

Outcomes == {RequestError} \cup Responses

\* bool(r) for what retry_request returns (`if not r`, lines 98 and 137;
\* `if rel and ...`, line 124).  None is false; a requests.Response is true
\* exactly when its `ok` is, that is unless its status is a client or server
\* error (requests.models.Response.__bool__ returns self.ok, and `ok` is
\* False when raise_for_status() raises, for 400 <= status_code < 600).
ResponseTruthyNotNone(r) == r.k # "none"
ResponseTruthy(r) ==
    /\ r.k # "none"
    /\ ~(400 <= r.status_code /\ r.status_code < 600)

\* r.status_code in (200, 404, 403, 429), line 82.
IsTerminal(status) == status \in {200, 404, 403, 429}

\* The rate-limit tests of lines 104 and 142.
RateLimitSignal(plat, resp) ==
    IF plat = "github"
    THEN resp.status_code = 403 /\ resp.remaining = Str(S_0)
    ELSE resp.status_code = 429

\* response.json() raised and nothing caught it.
Raised == [k |-> "raised"]

\* safe_get_json (lines 69-75): the parsed body, None when response.json()
\* raises ValueError.
safe_get_json_uncaught(response) ==
    IF response.body = InvalidJson THEN Raised ELSE response.body
safe_get_json(response) ==
    IF response.body = InvalidJson THEN None ELSE response.body

\* isinstance(data, dict), lines 114, 126 and 151.
IsDictNotNone(data) == data.k # "none"
IsDict(data) == data.k = "dict"

\* The record both fetchers start from, lines 93-94 and 132-133.
InitialMetaZeroStars ==
    [stars |-> Num(0), forks |-> None, license |-> None,
     latest_version |-> None, archived |-> Bool(FALSE)]
InitialMeta ==
    [stars |-> None, forks |-> None, license |-> None,
     latest_version |-> None, archived |-> Bool(FALSE)]

\* (data.get("license") or {}).get(field), lines 119 and 156.
LicenseField(data, field) ==
    LET lic == Get(data.d, "license", None)
    IN  Get((IF Truthy(lic) THEN lic ELSE Dict(EmptyMap)).d, field, None)

\* Lines 117-120: the fields fetch_github_meta takes from the repository.
GithubFields(m, data) ==
    [m EXCEPT !.stars = Get(data.d, "stargazers_count", None),
              !.forks = Get(data.d, "forks_count", None),
              !.license = LicenseField(data, "spdx_id"),
              !.archived = Get(data.d, "archived", Bool(FALSE))]

\* Lines 154-157: the fields fetch_gitlab_meta takes from the project.
GitlabFields(m, data) ==
    [m EXCEPT !.stars = Get(data.d, "star_count", None),
              !.forks = Get(data.d, "forks_count", None),
              !.license = LicenseField(data, "name"),
              !.archived = Get(data.d, "archived", Bool(FALSE))]

\* ------------------------------------------------------------------------
\* Catalogs: what json.load can read from INPUT_FILE (lines 162-163)
\* ------------------------------------------------------------------------

MaxEntries == 2

S_Termux_OS == <<"T", "e", "r", "m", "u", "x", " ", "O", "S">>
S_termux_os == <<"t", "e", "r", "m", "u", "x", "_", "o", "s">>
S_Wireless_Tools == <<" ", "W", "i", "r", "e", "l", "e", "s", "s", "_", "T", "o", "o", "l", "s", " ">>
S_Recon == <<"R", "e", "c", "o", "n">>
S_Latest == <<"L", "a", "t", "e", "s", "t">>
S_LATEST == <<"L", "A", "T", "E", "S", "T">>
S_1_0 == <<"1", ".", "0">>
S_git == <<"g", "i", "t">>
S_python == <<"p", "y", "t", "h", "o", "n">>
URL_HelloWorld == <<"h", "t", "t", "p", "s", ":", "/", "/", "g", "i", "t", "h", "u", "b", ".", "c", "o", "m", "/", "o", "c", "t", "o", "c", "a", "t", "/", "H", "e", "l", "l", "o", "-", "W", "o", "r", "l", "d", ".", "g", "i", "t">>
URL_GitlabProject == <<"h", "t", "t", "p", "s", ":", "/", "/", "g", "i", "t", "l", "a", "b", ".", "c", "o", "m", "/", "g", "r", "o", "u", "p", "/", "p", "r", "o", "j", "e", "c", "t", ".", "g", "i", "t">>
URL_Example == <<"h", "t", "t", "p", "s", ":", "/", "/", "e", "x", "a", "m", "p", "l", "e", ".", "c", "o", "m", "/", "s", "o", "m", "e", "t", "h", "i", "n", "g">>

\* SAMPLE_DATA["ToolA"] of test_update.py (lines 15-23).
ToolA ==
    [name |-> Str(<<"T", "o", "o", "l", "A">>), package_name |-> Str(<<"t", "o", "o", "l", "-", "a">>),
     version |-> Str(S_latest), category |-> List(<<S_Termux_OS>>),
     url |-> Str(URL_HelloWorld), package_manager |-> Str(S_git),
     dependency |-> List(<<S_git>>)]

\* SAMPLE_DATA["ToolB"] of test_update.py (lines 24-32).
ToolB ==
    [name |-> Str(<<"T", "o", "o", "l", "B">>), package_name |-> Str(<<"t", "o", "o", "l", "-", "b">>),
     version |-> Str(S_1_0), category |-> None, url |-> None,
     package_manager |-> Str(S_git),
     dependency |-> List(<<S_python, S_git>>)]

\* A GitLab tool whose category is one string.
ToolGitlab ==
    [name |-> Str(<<"T", "o", "o", "l", "C">>), version |-> Str(S_1_0),
     category |-> Str(S_Wireless_Tools), url |-> Str(URL_GitlabProject)]

\* A tool hosted elsewhere, without category, with an upper-case placeholder.
ToolElsewhere ==
    [name |-> Str(<<"T", "o", "o", "l", "D">>), version |-> Str(S_LATEST),
     url |-> Str(URL_Example)]

\* A tool with neither version nor URL and with an empty category list.
ToolBare == [name |-> Str(<<"T", "o", "o", "l", "E">>), category |-> List(<<>>)]

\* A tool with an empty URL, a capitalised placeholder and categories that
\* collapse to two after normalization.
ToolMulti ==
    [name |-> Str(<<"T", "o", "o", "l", "F">>), version |-> Str(S_Latest),
     category |-> List(<<S_Termux_OS, S_termux_os, S_Recon>>),
     url |-> Str(<<>>)]

SampleItems == {ToolA, ToolB, ToolGitlab, ToolElsewhere, ToolBare, ToolMulti}

\* The keys of the catalog, in the order of the file.
Keys == <<"ToolA", "ToolB", "ToolC", "ToolD">>

\* data.items(): the catalog as the sequence of its (key, item) pairs.
Catalogs ==
    UNION {[1..n -> SampleItems] : n \in 0..MaxEntries}

\* ------------------------------------------------------------------------
\* enhance_data, the fetchers and retry_request as one sequential process
\* ------------------------------------------------------------------------

\* The rate-limit branch calls the fetcher again from inside itself; the
\* count of cooldown sleeps of the entry in hand stops growing here.
MaxCooldowns == 2

VARIABLES
    data,       \* the catalog read from INPUT_FILE, as (key-ordered) items
    i,          \* enhance_data: index of the entry of the for loop, line 168
    item,       \* enhance_data: the entry in hand, as modified so far
    platform,   \* enhance_data: parse_repo_info's platform, line 175
    path,       \* enhance_data: parse_repo_info's path, line 175
    meta,       \* the fetcher's meta, and enhance_data's once it is returned
    enhanced,   \* enhance_data: the output dictionary, line 165, in key order
    skipped,    \* enhance_data: the skipped keys, line 166
    r,          \* fetcher: the repository response, lines 97 and 136
    rel,        \* fetch_github_meta: the release response, line 123
    req,        \* which request retry_request is serving: "repo" or "rel"
    attempt,    \* retry_request: the loop variable of line 79
    log,        \* retry_request: the GETs and sleeps of the call, in order
    cooldowns,  \* cooldown sleeps (line 106 or 144) for the entry in hand
    fetched,    \* the keys a fetcher was called for, in order
    writes,     \* how many times OUTPUT_FILE was written
    output,     \* the catalog last written to OUTPUT_FILE
    pc,         \* the place of the process in the code
    fn,         \* a helper called on its own: which one, "pending" before
    arg,        \* a helper called on its own: the argument drawn for it
    results,    \* a helper called on its own: what its calls returned
    loaded,     \* update_versions.py: data.values() as read, line 9
    tools,      \* update_versions.py: data.values() as modified so far
    t,          \* update_versions.py: index of the tool of the loop, line 23
    updated,    \* update_versions.py: the flag of line 22
    gets,       \* update_versions.py: the requests of line 16 and their
                \* responses, in order
    saved,      \* update_versions.py: how often data.json was written
    upc         \* update_versions.py: the place of the script in its code

\* The state of enhance_data and what it calls.
enhanceVars ==
    <<data, i, item, platform, path, meta, enhanced, skipped, r, rel, req,
      attempt, log, cooldowns, fetched, writes, output, pc>>

\* The state of a helper called on its own.
pureVars == <<fn, arg, results>>

\* The state of core/update_versions.py.
updateVars == <<loaded, tools, t, updated, gets, saved, upc>>

vars == <<enhanceVars, pureVars, updateVars>>

\* No helper is called on its own.
PureIdle ==
    /\ fn = "idle"
    /\ arg = None
    /\ results = <<>>

\* update_versions.py is not run.
UpdateIdle ==
    /\ loaded = <<>>
    /\ tools = <<>>
    /\ t = 1
    /\ updated = FALSE
    /\ gets = <<>>
    /\ saved = 0
    /\ upc = "idle"

\* One (key, item) pair of a dictionary kept in insertion order.
Entry(key, it) == [key |-> key, item |-> it]

\* enhanced[key] = item, lines 182 and 192.
Put(d, key, it) ==
    IF \E j \in DOMAIN d : d[j].key = key
    THEN [j \in DOMAIN d |-> IF d[j].key = key THEN Entry(key, it) ELSE d[j]]
    ELSE Append(d, Entry(key, it))

\* skipped.append(key), line 181.
AppendSkippedTwice(s, key) == Append(Append(s, key), key)
AppendSkipped(s, key) == Append(s, key)

\* item.get("version", "").lower() == "latest", line 172.
IsPlaceholderExact(version) == version = S_latest
IsPlaceholder(version) == Lower(version) = S_latest

\* Lines 172-173.
RewritePlaceholder(it) ==
    IF IsPlaceholder(Get(it, "version", Str(<<>>)).s)
    THEN SetItem(it, "version", Str(S_unknown))
    ELSE it

\* Lines 185-186: the version is replaced when the fetch found one.
MergeVersionAlways(it, m) == SetItem(it, "version", Get(m, "latest_version", None))
MergeVersion(it, m) ==
    IF Truthy(Get(m, "latest_version", None))
    THEN SetItem(it, "version", m["latest_version"])
    ELSE it

\* Lines 185-190.
MergeMetaReplacing(it, m) == m
MergeMeta(it, m) ==
    LET v == MergeVersion(it, m)
        s == SetItem(v, "stars", Get(m, "stars", None))
        f == SetItem(s, "forks", Get(m, "forks", None))
        l == SetItem(f, "license", Get(m, "license", None))
    IN  SetItem(l, "archived", Get(m, "archived", None))

\* for attempt in range(retries), line 79: is there another iteration?
LoopContinuesOneMore(a) == a <= MAX_RETRIES
LoopContinues(a) == a < MAX_RETRIES

\* What the log keeps of a GET (code 0: requests.get raised) and of a sleep.
GetEvent(o) == [ev |-> "get", code |-> IF o.k = "error" THEN 0 ELSE o.status_code]
SleepEvent(secs) == [ev |-> "sleep", secs |-> secs]

Init ==
    /\ data \in Catalogs
    /\ i = 1
    /\ item = EmptyMap
    /\ platform = "none"
    /\ path = None
    /\ meta = InitialMeta
    /\ enhanced = <<>>
    /\ skipped = <<>>
    /\ r = Unset
    /\ rel = Unset
    /\ req = "repo"
    /\ attempt = 0
    /\ log = <<>>
    /\ cooldowns = 0
    /\ fetched = <<>>
    /\ writes = 0
    /\ output = <<>>
    /\ pc = "loop"
    /\ PureIdle
    /\ UpdateIdle

\* Lines 168-173: the next entry; its category is normalized and a "latest"
\* version rewritten, in the item itself.
PrepareEntry ==
    /\ pc = "loop"
    /\ i <= Len(data)
    /\ \E cat \in normalize_category(Get(data[i], "category", None)) :
          item' = RewritePlaceholder(SetItem(data[i], "category", cat))
    /\ cooldowns' = 0
    /\ pc' = "dispatch"
    /\ UNCHANGED <<data, i, platform, path, meta, enhanced, skipped, r, rel,
                   req, attempt, log, fetched, writes, output>>
    /\ UNCHANGED <<pureVars, updateVars>>

\* Lines 175-179: the URL names a platform, and its fetcher is called.
CallFetch ==
    /\ pc = "dispatch"
    /\ \E info \in {parse_repo_info(Get(item, "url", None))} :
          /\ info.platform \in {"github", "gitlab"}
          /\ platform' = info.platform
          /\ path' = info.path
    /\ fetched' = Append(fetched, Keys[i])
    /\ pc' = "fetch"
    /\ UNCHANGED <<data, i, item, meta, enhanced, skipped, r, rel, req,
                   attempt, log, cooldowns, writes, output>>
    /\ UNCHANGED <<pureVars, updateVars>>

\* Lines 175 and 180-183: no platform; the entry is recorded as skipped and
\* goes to the output as it stands.
SkipEntry ==
    /\ pc = "dispatch"
    /\ \E info \in {parse_repo_info(Get(item, "url", None))} :
          /\ info.platform = "none"
          /\ platform' = info.platform
          /\ path' = info.path
    /\ skipped' = AppendSkipped(skipped, Keys[i])
    /\ enhanced' = Put(enhanced, Keys[i], item)
    /\ i' = i + 1
    /\ pc' = "loop"
    /\ UNCHANGED <<data, item, meta, r, rel, req, attempt, log, cooldowns,
                   fetched, writes, output>>
    /\ UNCHANGED <<pureVars, updateVars>>

\* Lines 93-97 and 132-136: a fetcher starts, and calls retry_request for
\* the repository.  The log is empty, or holds the cooldown sleep that came
\* before this start.
FetchBegin ==
    /\ pc = "fetch"
    /\ meta' = InitialMeta
    /\ r' = Unset
    /\ rel' = Unset
    /\ req' = "repo"
    /\ attempt' = 0
    /\ pc' = "get"
    /\ UNCHANGED <<data, i, item, platform, path, enhanced, skipped, log,
                   cooldowns, fetched, writes, output>>
    /\ UNCHANGED <<pureVars, updateVars>>

\* Lines 79-86: one GET.  A response with a terminal status is returned to
\* the fetcher; any other response, and a request error, lead to line 87.
Attempt ==
    /\ pc = "get"
    /\ LoopContinues(attempt)
    /\ \E o \in Outcomes :
          /\ log' = Append(log, GetEvent(o))
          /\ IF o.k = "response" /\ IsTerminal(o.status_code)
             THEN IF req = "repo"
                  THEN r' = o /\ rel' = rel /\ pc' = "repo_done"
                  ELSE rel' = o /\ r' = r /\ pc' = "rel_done"
             ELSE pc' = "backoff" /\ UNCHANGED <<r, rel>>
    /\ UNCHANGED <<data, i, item, platform, path, meta, enhanced, skipped,
                   req, attempt, cooldowns, fetched, writes, output>>
    /\ UNCHANGED <<pureVars, updateVars>>

\* Line 87: time.sleep(wait * (2 ** attempt)), then the next iteration.
Backoff ==
    /\ pc = "backoff"
    /\ log' = Append(log, SleepEvent(DefaultWait * 2^attempt))
    /\ attempt' = attempt + 1
    /\ pc' = "get"
    /\ UNCHANGED <<data, i, item, platform, path, meta, enhanced, skipped,
                   r, rel, req, cooldowns, fetched, writes, output>>
    /\ UNCHANGED <<pureVars, updateVars>>

\* Lines 88-89: the loop is over; retry_request returns None.
GiveUp ==
    /\ pc = "get"
    /\ ~LoopContinues(attempt)
    /\ IF req = "repo"
       THEN r' = None /\ rel' = rel /\ pc' = "repo_done"
       ELSE rel' = None /\ r' = r /\ pc' = "rel_done"
    /\ UNCHANGED <<data, i, item, platform, path, meta, enhanced, skipped,
                   req, attempt, log, cooldowns, fetched, writes, output>>
    /\ UNCHANGED <<pureVars, updateVars>>

\* What a fetcher does next, and with which meta.
Step(next, m) == [next |-> next, meta |-> m]

\* fetch_github_meta from the return of the repository request to the
\* release request, lines 98-123.  data.get on a value that is no
\* dictionary raises AttributeError.
GithubAfterRepo(resp, m) ==
    IF ~ResponseTruthy(resp) THEN Step("return", m)
    ELSE IF resp.status_code = 404 THEN Step("return", m)
    ELSE IF RateLimitSignal("github", resp) THEN Step("cooldown", m)
    ELSE IF resp.status_code # 200 THEN Step("return", m)
    ELSE LET d == safe_get_json(resp)
         IN  IF d = Raised THEN Step("raise", m)
             ELSE IF ~IsDict(d) THEN Step("return", m)
             ELSE IF d.k # "dict" THEN Step("raise", m)
             ELSE Step("release", GithubFields(m, d))

\* fetch_github_meta after the release request, lines 124-128.
GithubAfterRelCooldown(resp, m) ==
    IF resp.k = "response" /\ RateLimitSignal("github", resp)
    THEN Step("cooldown", m)
    ELSE IF ResponseTruthy(resp) /\ resp.status_code = 200
    THEN LET d == safe_get_json(resp)
         IN  IF ~IsDict(d) THEN Step("return", m)
             ELSE Step("return",
                       [m EXCEPT !.latest_version = Get(d.d, "tag_name", None)])
    ELSE Step("return", m)
GithubAfterRel(resp, m) ==
    IF ResponseTruthy(resp) /\ resp.status_code = 200
    THEN LET d == safe_get_json(resp)
         IN  IF d = Raised THEN Step("raise", m)
             ELSE IF ~IsDict(d) THEN Step("return", m)
             ELSE IF d.k # "dict" THEN Step("raise", m)
             ELSE Step("return",
                       [m EXCEPT !.latest_version = Get(d.d, "tag_name", None)])
    ELSE Step("return", m)

\* fetch_gitlab_meta after the project request, lines 137-158.
GitlabAfterRepo(resp, m) ==
    IF ~ResponseTruthy(resp) THEN Step("return", m)
    ELSE IF resp.status_code = 404 THEN Step("return", m)
    ELSE IF RateLimitSignal("gitlab", resp) THEN Step("cooldown", m)
    ELSE IF resp.status_code # 200 THEN Step("return", m)
    ELSE LET d == safe_get_json(resp)
         IN  IF d = Raised THEN Step("raise", m)
             ELSE IF ~IsDict(d) THEN Step("return", m)
             ELSE IF d.k # "dict" THEN Step("raise", m)
             ELSE Step("return", GitlabFields(m, d))

\* The fetcher goes on as `s` says: it returns meta to enhance_data, sleeps
\* RATE_LIMIT_WAIT and calls itself again (lines 106-107, 144-145), calls
\* retry_request for the release (line 123), or dies of an exception.
\* retry_request's own frame, and its log, is gone in every case; a cooldown
\* sleep opens the log of the fetch that follows it.
Continue(s) ==
    /\ meta' = s.meta
    /\ pc' = CASE s.next = "return"   -> "merge"
               [] s.next = "cooldown" -> "fetch"
               [] s.next = "release"  -> "get"
               [] s.next = "raise"    -> "raised"
    /\ cooldowns' = IF s.next = "cooldown" /\ cooldowns < MaxCooldowns
                    THEN cooldowns + 1
                    ELSE cooldowns
    /\ req' = IF s.next = "release" THEN "rel" ELSE req
    /\ attempt' = IF s.next = "release" THEN 0 ELSE attempt
    /\ log' = IF s.next = "cooldown" THEN <<SleepEvent(RATE_LIMIT_WAIT)>> ELSE <<>>

GithubRepoDone ==
    /\ pc = "repo_done"
    /\ platform = "github"
    /\ Continue(GithubAfterRepo(r, meta))
    /\ UNCHANGED <<data, i, item, platform, path, enhanced, skipped, r, rel,
                   fetched, writes, output>>
    /\ UNCHANGED <<pureVars, updateVars>>

GithubRelDone ==
    /\ pc = "rel_done"
    /\ Continue(GithubAfterRel(rel, meta))
    /\ UNCHANGED <<data, i, item, platform, path, enhanced, skipped, r, rel,
                   fetched, writes, output>>
    /\ UNCHANGED <<pureVars, updateVars>>

GitlabRepoDone ==
    /\ pc = "repo_done"
    /\ platform = "gitlab"
    /\ Continue(GitlabAfterRepo(r, meta))
    /\ UNCHANGED <<data, i, item, platform, path, enhanced, skipped, r, rel,
                   fetched, writes, output>>
    /\ UNCHANGED <<pureVars, updateVars>>

\* Lines 185-192: the fetcher has returned; its frame is gone, its meta is
\* merged into the item and the item put into the output dictionary.
Merge ==
    /\ pc = "merge"
    /\ item' = MergeMeta(item, meta)
    /\ enhanced' = Put(enhanced, Keys[i], item')
    /\ i' = i + 1
    /\ r' = Unset
    /\ rel' = Unset
    /\ pc' = "loop"
    /\ UNCHANGED <<data, platform, path, meta, skipped, req, attempt, log,
                   cooldowns, fetched, writes, output>>
    /\ UNCHANGED <<pureVars, updateVars>>

\* The for loop of line 168 has no entry left.
LoopOverEarly(idx, d) == idx >= Len(d)
LoopOver(idx, d) == idx > Len(d)

\* Lines 194-195: the loop is over and the output file is written.
WriteOutput ==
    /\ pc = "loop"
    /\ LoopOver(i, data)
    /\ writes' = writes + 1
    /\ output' = enhanced
    /\ pc' = "done"
    /\ UNCHANGED <<data, i, item, platform, path, meta, enhanced, skipped,
                   r, rel, req, attempt, log, cooldowns, fetched>>
    /\ UNCHANGED <<pureVars, updateVars>>

Next ==
    \/ PrepareEntry
    \/ CallFetch
    \/ SkipEntry
    \/ FetchBegin
    \/ Attempt
    \/ Backoff
    \/ GiveUp
    \/ GithubRepoDone
    \/ GithubRelDone
    \/ GitlabRepoDone
    \/ Merge
    \/ WriteOutput

Spec == Init /\ [][Next]_vars

\* The script is one thread that nothing suspends: whenever it can take a
\* step it does.
FairSpec == Spec /\ WF_vars(Next)

\* ------------------------------------------------------------------------
\* normalize_category and parse_repo_info called on their own
\* ------------------------------------------------------------------------

\* enhance_data is not run.
EnhanceIdle ==
    /\ data = <<>>
    /\ i = 1
    /\ item = EmptyMap
    /\ platform = "none"
    /\ path = None
    /\ meta = InitialMeta
    /\ enhanced = <<>>
    /\ skipped = <<>>
    /\ r = Unset
    /\ rel = Unset
    /\ req = "repo"
    /\ attempt = 0
    /\ log = <<>>
    /\ cooldowns = 0
    /\ fetched = <<>>
    /\ writes = 0
    /\ output = <<>>
    /\ pc = "idle"

\* The longest category list given to normalize_category.
MaxCats == 2

S_termux == <<"t", "e", "r", "m", "u", "x">>

\* Category names: synonyms in several spellings, a name the table lacks, a
\* name that is the table's own output, the empty name and a blank one.
CategoryStrings ==
    {S_Termux_OS, S_termux_os, S_Wireless_Tools, S_Recon, S_termux, <<>>, <<" ">>}

\* What normalize_category can be given: None, a string, a list of strings.
CategoryInputs ==
    {None}
    \cup {Str(c) : c \in CategoryStrings}
    \cup {List(l) : l \in UNION {[1..n -> CategoryStrings] : n \in 0..MaxCats}}

UrlSchemes == {<<"h", "t", "t", "p", "s", ":", "/", "/">>, <<"h", "t", "t", "p", ":", "/", "/">>}

\* Hosts: the two platforms, a foreign host, and two foreign hosts whose
\* names contain a platform's name.
UrlHosts ==
    {S_github_com, S_gitlab_com,
     <<"e", "x", "a", "m", "p", "l", "e", ".", "c", "o", "m">>,
     <<"n", "o", "t", "g", "i", "t", "h", "u", "b", ".", "c", "o", "m", ".", "e", "v", "i", "l", ".", "o", "r", "g">>,
     <<"g", "i", "t", "l", "a", "b", ".", "c", "o", "m", "p", "a", "n", "y", ".", "o", "r", "g">>}

UrlPaths ==
    {<<"/", "u", "s", "e", "r", "/", "r", "e", "p", "o", ".", "g", "i", "t">>,
     <<"/", "u", "s", "e", "r", "/", "r", "e", "p", "o">>,
     <<"/", "u", "s", "e", "r", "/", "r", "e", "p", "o", ".", "g", "i", "t", "/">>,
     <<"/", "u", "s", "e", "r", "/", "u", "s", "e", "r", ".", "g", "i", "t", "h", "u", "b", ".", "i", "o">>,
     <<"/", "g", "r", "o", "u", "p", "/", "s", "u", "b", "/", "p", "r", "o", "j", "e", "c", "t", ".", "g", "i", "t">>,
     <<"/">>,
     <<>>}

\* What parse_repo_info can be given: None, the empty string, a URL.
UrlInputs ==
    {None, Str(<<>>)}
    \cup {Str(s \o h \o p) : s \in UrlSchemes, h \in UrlHosts, p \in UrlPaths}

\* The lists with the elements of l in another order.
Reorderings(l) ==
    {[j \in DOMAIN l |-> l[p[j]]] :
        p \in {f \in [DOMAIN l -> DOMAIN l] : Range(f) = DOMAIN l}}

PureInit ==
    /\ EnhanceIdle
    /\ UpdateIdle
    /\ fn = "pending"
    /\ arg \in CategoryInputs \cup UrlInputs
    /\ results = <<>>

\* normalize_category(arg)
NormalizeCategoryCall ==
    /\ fn = "pending"
    /\ arg \in CategoryInputs
    /\ \E out \in normalize_category(arg) : results' = <<out>>
    /\ fn' = "normalize_category"
    /\ UNCHANGED <<arg, enhanceVars, updateVars>>

\* normalize_category applied to what normalize_category(arg) returned.
NormalizeCategoryAgain ==
    /\ fn = "normalize_category"
    /\ \E out \in normalize_category(results[1]) : results' = Append(results, out)
    /\ fn' = "normalize_category_again"
    /\ UNCHANGED <<arg, enhanceVars, updateVars>>

\* normalize_category applied to the list arg in another order.
NormalizeCategoryReordered ==
    /\ fn = "pending"
    /\ arg \in CategoryInputs
    /\ arg.k = "list"
    /\ \E p \in Reorderings(arg.l) :
          \E out \in normalize_category(List(p)) : results' = <<out>>
    /\ fn' = "normalize_category_reordered"
    /\ UNCHANGED <<arg, enhanceVars, updateVars>>

\* parse_repo_info(arg)
ParseRepoInfoCall ==
    /\ fn = "pending"
    /\ arg \in UrlInputs
    /\ results' = <<parse_repo_info(arg)>>
    /\ fn' = "parse_repo_info"
    /\ UNCHANGED <<arg, enhanceVars, updateVars>>

PureNext ==
    \/ NormalizeCategoryCall
    \/ NormalizeCategoryAgain
    \/ NormalizeCategoryReordered
    \/ ParseRepoInfoCall

PureSpec == PureInit /\ [][PureNext]_vars

\* ------------------------------------------------------------------------
\* core/update_versions.py
\* ------------------------------------------------------------------------

\* str.rstrip(chars): every trailing character of the set goes.
RStripChars(s, chars) ==
    Bind(s, LAMBDA v :
    Bind({j \in DOMAIN v : v[j] \notin chars}, LAMBDA keep :
        IF keep = {} THEN <<>>
        ELSE SubSeq(v, 1, CHOOSE j \in keep : \A h \in keep : j >= h)))

S_api_github_com_repos == <<"a", "p", "i", ".", "g", "i", "t", "h", "u", "b", ".", "c", "o", "m", "/", "r", "e", "p", "o", "s">>
S_releases_latest == <<"/", "r", "e", "l", "e", "a", "s", "e", "s", "/", "l", "a", "t", "e", "s", "t">>

\* The URL of line 15:
\* repo_url.replace('github.com', 'api.github.com/repos').rstrip('.git')
\*     + '/releases/latest'
ApiUrl(repo_url) ==
    RStripChars(Replace(repo_url, S_github_com, S_api_github_com_repos),
                {".", "g", "i", "t"})
        \o S_releases_latest

\* A release whose tag is the version ToolB and the tools below have.
SameTagBody == Dict([tag_name |-> Str(S_1_0)])

\* What requests.get can do at line 16.
UpdateOutcomes ==
    {RequestError}
    \cup {Response(200, None, b) :
            b \in {ReleaseBody, SameTagBody, EmptyTagBody, BareRepoBody,
                   InvalidJson, List(<<>>)}}
    \cup {Response(404, None, InvalidJson), Response(403, Str(S_0), InvalidJson)}

\* Lines 17-19: the tag of a response, None when the status is not 200 or
\* the document has no tag_name; response.json() raises on a body that is no
\* JSON, and .get on a document that is no object.
TagOf(o) ==
    IF o.status_code # 200 THEN None
    ELSE IF o.body.k # "dict" THEN Raised
    ELSE Get(o.body.d, "tag_name", None)

\* Line 25: latest_version and latest_version != tool['version']
ShouldUpdateAlways(latest_version, tool) == Truthy(latest_version)
ShouldUpdate(latest_version, tool) ==
    Truthy(latest_version) /\ latest_version # tool["version"]

URL_Toolkit == <<"h", "t", "t", "p", "s", ":", "/", "/", "g", "i", "t", "h", "u", "b", ".", "c", "o", "m", "/", "o", "w", "n", "e", "r", "/", "t", "o", "o", "l", "k", "i", "t">>

\* A GitHub tool whose URL has no ".git" and ends in letters of ".git".
ToolKit ==
    [name |-> Str(<<"t", "o", "o", "l", "k", "i", "t">>), version |-> Str(S_1_0), url |-> Str(URL_Toolkit)]

\* The longest catalog update_versions.py is run on.
MaxTools == 2

UpdateItems == {ToolA, ToolB, ToolKit, ToolGitlab}

UpdateInit ==
    /\ EnhanceIdle
    /\ PureIdle
    /\ loaded \in UNION {[1..n -> UpdateItems] : n \in 0..MaxTools}
    /\ tools = loaded
    /\ t = 1
    /\ updated = FALSE
    /\ gets = <<>>
    /\ saved = 0
    /\ upc = "loop"

\* Lines 23-24 and 13-14: a tool without URL; no request, no change.
NoUrl ==
    /\ upc = "loop"
    /\ t <= Len(tools)
    /\ ~Truthy(Get(tools[t], "url", None))
    /\ t' = t + 1
    /\ UNCHANGED <<loaded, tools, updated, gets, saved, upc>>
    /\ UNCHANGED <<enhanceVars, pureVars>>

\* Lines 23-27 and 15-19: a tool with a URL; the request of line 16, whose
\* exception nothing catches, the tag of its response, and the rewrite of
\* the version when the tag differs.
GetLatest ==
    /\ upc = "loop"
    /\ t <= Len(tools)
    /\ Truthy(Get(tools[t], "url", None))
    /\ \E o \in UpdateOutcomes :
          /\ gets' = Append(gets, [tool |-> t,
                                   api_url |-> ApiUrl(tools[t]["url"].s),
                                   response |-> o])
          /\ IF o = RequestError \/ TagOf(o) = Raised
             THEN upc' = "raised" /\ UNCHANGED <<tools, updated, t>>
             ELSE /\ upc' = upc
                  /\ t' = t + 1
                  /\ IF ShouldUpdate(TagOf(o), tools[t])
                     THEN /\ tools' = [tools EXCEPT ![t]["version"] = TagOf(o)]
                          /\ updated' = TRUE
                     ELSE UNCHANGED <<tools, updated>>
    /\ UNCHANGED <<loaded, saved>>
    /\ UNCHANGED <<enhanceVars, pureVars>>

\* Lines 30-32: there was an update, and the file is written.
Save ==
    /\ upc = "loop"
    /\ t > Len(tools)
    /\ updated
    /\ saved' = saved + 1
    /\ upc' = "done"
    /\ UNCHANGED <<loaded, tools, t, updated, gets>>
    /\ UNCHANGED <<enhanceVars, pureVars>>

\* Line 30: there was no update, and the script ends.
Finish ==
    /\ upc = "loop"
    /\ t > Len(tools)
    /\ ~updated
    /\ upc' = "done"
    /\ UNCHANGED <<loaded, tools, t, updated, gets, saved>>
    /\ UNCHANGED <<enhanceVars, pureVars>>

UpdateNext ==
    \/ NoUrl
    \/ GetLatest
    \/ Save
    \/ Finish

UpdateSpec == UpdateInit /\ [][UpdateNext]_vars

\* ------------------------------------------------------------------------
\* Properties
\* ------------------------------------------------------------------------

\* The codes of the GETs of the current retry_request call, in order.
GetCodes ==
    LET g == SelectSeq(log, LAMBDA e : e.ev = "get")
    IN  [j \in DOMAIN g |-> g[j].code]

\* The value retry_request has just returned, at its two return places.
Returned == IF pc = "repo_done" THEN r ELSE rel

\* C1: a repository response that carries the platform's rate-limit signal
\* (GitHub: 403 with X-RateLimit-Remaining "0"; GitLab: 429) is never
\* followed by the return of a metadata record to enhance_data unless the
\* fetcher has slept RATE_LIMIT_WAIT for this entry before.
C1_CooldownBeforeReturn ==
    (pc = "merge" /\ r.k = "response" /\ RateLimitSignal(platform, r))
        => cooldowns >= 1

\* C2: a retry_request call makes at most MAX_RETRIES GETs; what it returns
\* is either the response of its last GET, whose status is one of 200, 404,
\* 403, 429 while no earlier GET of the call had such a status, or None
\* after exactly MAX_RETRIES GETs none of which had such a status.
C2_RetryRequestBounded ==
    /\ Len(GetCodes) <= 3
    /\ pc \in {"repo_done", "rel_done"} =>
          LET n == Len(GetCodes)
          IN  /\ n >= 1
              /\ \A j \in 1..(n - 1) : GetCodes[j] \notin {200, 404, 403, 429}
              /\ IF Returned.k = "response"
                 THEN /\ Returned.status_code \in {200, 404, 403, 429}
                      /\ GetCodes[n] = Returned.status_code
                      /\ log[Len(log)].ev = "get"
                 ELSE /\ Returned = None
                      /\ n = 3
                      /\ GetCodes[n] \notin {200, 404, 403, 429}

\* retry_request has returned None after three failed GETs, the first a
\* request error and the last a 500.
C2_Witness ==
    /\ pc = "rel_done"
    /\ rel = None
    /\ Len(GetCodes) = 3
    /\ GetCodes[1] = 0
    /\ GetCodes[3] = 500

\* C3, as claimed: after a 404 to the repository request the fetcher returns
\* a record whose five fields are all None, and makes no further request.
C3_AllFieldsNone ==
    (r.k = "response" /\ r.status_code = 404) =>
        /\ pc \in {"repo_done", "merge"}
        /\ rel = Unset
        /\ \A f \in {"stars", "forks", "license", "latest_version", "archived"} :
              meta[f] = None

\* C3, amended: after a 404 to the repository request the fetcher makes no
\* further request and raises nothing; the record it returns has stars,
\* forks, license and latest_version None and archived False.
C3_NotFoundMeta ==
    (r.k = "response" /\ r.status_code = 404) =>
        /\ pc \in {"repo_done", "merge"}
        /\ rel = Unset
        /\ meta = [stars |-> None, forks |-> None, license |-> None,
                   latest_version |-> None, archived |-> Bool(FALSE)]

\* fetch_gitlab_meta has returned to enhance_data after a 404.
C3_Witness ==
    /\ pc = "merge"
    /\ platform = "gitlab"
    /\ r.k = "response"
    /\ r.status_code = 404

\* The failure paths of a fetcher: no response, or a response without the
\* platform's rate-limit signal that is not a 200 with a JSON object.
FailurePath ==
    \/ r = None
    \/ /\ r.k = "response"
       /\ ~RateLimitSignal(platform, r)
       /\ (r.status_code # 200 \/ r.body.k # "dict")

\* C4: no exception leaves a fetcher, and a fetcher that returns on a
\* failure path returns a record with exactly the keys stars, forks,
\* license, latest_version, archived, the first four of them None.
C4_GracefulDegradation ==
    /\ pc # "raised"
    /\ (pc = "merge" /\ FailurePath) =>
          /\ DOMAIN meta = {"stars", "forks", "license", "latest_version", "archived"}
          /\ \A f \in {"stars", "forks", "license", "latest_version"} :
                meta[f] = None

\* fetch_github_meta has returned after a 200 whose body is no JSON.
C4_Witness ==
    /\ pc = "merge"
    /\ platform = "github"
    /\ r.k = "response"
    /\ r.status_code = 200
    /\ r.body = InvalidJson

\* The entries of the input whose URL is missing (absent, None or empty) or
\* has a host that contains neither "github.com" nor "gitlab.com".
NoPlatform(it) ==
    LET url == Get(it, "url", None)
    IN  \/ ~Truthy(url)
        \/ /\ ~Contains(urlparse(url.s).netloc, S_github_com)
           /\ ~Contains(urlparse(url.s).netloc, S_gitlab_com)

\* How often key stands in the list s.
Occurrences(s, key) == Cardinality({j \in DOMAIN s : s[j] = key})

\* The version an input record has once a case-insensitive "latest" is
\* replaced by "unknown"; Unset when the record has no version.
RewrittenVersion(it) ==
    IF "version" \notin DOMAIN it THEN Unset
    ELSE IF Lower(it["version"].s) = S_latest THEN Str(S_unknown)
    ELSE it["version"]

\* C5, as claimed: once the output is written, every entry without platform
\* was never fetched, stands once in skipped, and its output record equals
\* its input record; skipped holds as many keys as there are such entries.
C5_SkippedUnmodified ==
    pc = "done" =>
        /\ \A j \in DOMAIN data :
              NoPlatform(data[j]) =>
                  /\ Occurrences(fetched, Keys[j]) = 0
                  /\ Occurrences(skipped, Keys[j]) = 1
                  /\ output[j] = Entry(Keys[j], data[j])
        /\ Len(skipped) = Cardinality({j \in DOMAIN data : NoPlatform(data[j])})

\* C5, amended: once the output is written, every entry without platform
\* was never fetched, stands once in skipped, and its output record has the
\* fields of its input record plus category, each with its input value
\* except category, which is the normalized category, and version, in which
\* a case-insensitive "latest" is replaced by "unknown"; no metadata field
\* is added; skipped holds as many keys as there are such entries.
C5_SkippedPassThrough ==
    pc = "done" =>
        /\ \A j \in DOMAIN data :
              NoPlatform(data[j]) =>
                  /\ Occurrences(fetched, Keys[j]) = 0
                  /\ Occurrences(skipped, Keys[j]) = 1
                  /\ output[j].key = Keys[j]
                  /\ DOMAIN output[j].item = DOMAIN data[j] \cup {"category"}
                  /\ \A f \in DOMAIN data[j] \ {"category", "version"} :
                        output[j].item[f] = data[j][f]
                  /\ output[j].item["category"]
                        \in normalize_category(Get(data[j], "category", None))
                  /\ "version" \in DOMAIN data[j] =>
                        output[j].item["version"] = RewrittenVersion(data[j])
        /\ Len(skipped) = Cardinality({j \in DOMAIN data : NoPlatform(data[j])})

\* The catalog of the end-to-end test, ToolA on GitHub and ToolB without
\* URL, has been written, with one key skipped.
C5_Witness ==
    /\ pc = "done"
    /\ data = <<ToolA, ToolB>>
    /\ skipped = <<"ToolB">>
    /\ output[2].item["category"] = List(<<S_uncategorized>>)

\* C6: no exception ends the run; the entries are processed in the order of
\* the catalog, each put into the output dictionary before the next is
\* taken up; the catalog written has the keys of the input, in its order.
C6_EveryEntryProcessed ==
    /\ pc # "raised"
    /\ i \in 1..(Len(data) + 1)
    /\ [j \in DOMAIN enhanced |-> enhanced[j].key] = SubSeq(Keys, 1, i - 1)
    /\ pc = "done" =>
          [j \in DOMAIN output |-> output[j].key] = SubSeq(Keys, 1, Len(data))

\* A run is over in which the fetch of the first entry failed and the
\* second entry was enriched all the same.
C6_Witness ==
    /\ pc = "done"
    /\ data = <<ToolA, ToolGitlab>>
    /\ output[1].item["stars"] = None
    /\ output[2].item["stars"] = Num(7)

\* C7: every run of enhance_data writes the output file and ends.
C7_Termination == <>(pc = "done")

\* A run over two entries that were both fetched is over, and the file
\* written once.
C7_Witness ==
    /\ pc = "done"
    /\ writes = 1
    /\ Len(fetched) = 2

\* The tags a release response of the model can carry.
ReleaseTags == {Str(S_v2_0_0)}

\* C8: while a fetcher runs for an entry whose version was "latest" in any
\* letter case, the version of the item is "unknown"; in the output such an
\* entry has version "unknown" or a tag found by the fetch, and "unknown"
\* when it was skipped.
C8_PlaceholderRewritten ==
    /\ (/\ pc \in {"fetch", "get", "backoff", "repo_done", "rel_done", "merge"}
        /\ RewrittenVersion(data[i]) = Str(S_unknown))
          => item["version"] = Str(S_unknown)
    /\ pc = "done" =>
          \A j \in DOMAIN data :
              RewrittenVersion(data[j]) = Str(S_unknown) =>
                  /\ output[j].item["version"] \in {Str(S_unknown)} \cup ReleaseTags
                  /\ Occurrences(skipped, Keys[j]) = 1 =>
                        output[j].item["version"] = Str(S_unknown)

\* fetch_github_meta is about to start for the test's ToolA, whose version
\* was "latest" and is "unknown" by now.
C8_Witness ==
    /\ pc = "fetch"
    /\ data[i] = ToolA
    /\ item["version"] = Str(S_unknown)

\* C9: when the meta a fetcher returned has been merged, the version of
\* the entry is the latest_version of the meta if that is a non-empty
\* string, and otherwise the version the entry had after the placeholder
\* rewrite (none, if it had none); a GitLab entry keeps that version; stars,
\* forks, license and archived are those of the meta.
C9_VersionOnlyWhenFound ==
    (pc = "loop" /\ i > 1 /\ platform # "none") =>
        LET e == enhanced[i - 1].item
            lv == meta["latest_version"]
            before == RewrittenVersion(data[i - 1])
            version == IF "version" \in DOMAIN e THEN e["version"] ELSE Unset
        IN  /\ version = IF lv.k = "str" /\ Len(lv.s) > 0 THEN lv ELSE before
            /\ platform = "gitlab" => version = before
            /\ \A f \in {"stars", "forks", "license", "archived"} :
                  f \in DOMAIN e /\ e[f] = meta[f]

\* ToolA has been merged with a meta that carries the tag v2.0.0 and the
\* test's repository fields.
C9_Witness ==
    /\ pc = "loop"
    /\ i = 2
    /\ platform = "github"
    /\ meta["latest_version"] = Str(S_v2_0_0)
    /\ enhanced[1].item["version"] = Str(S_v2_0_0)
    /\ enhanced[1].item["stars"] = Num(42)

\* C10: the category of every entry put into the output dictionary, and of
\* every entry written, is a non-empty list of strings without duplicates,
\* each in lower case and none a key of CATEGORY_MAP; the strings are those
\* the input strings give when stripped, lowered and looked up in
\* CATEGORY_MAP; it is ["uncategorized"] when the input has no category, or
\* None, or an empty one.
CategoryNormalized(in, out) ==
    LET cat == Get(in, "category", None)
        given == IF cat.k = "str" THEN <<cat.s>> ELSE cat.l
    IN  /\ "category" \in DOMAIN out
        /\ out["category"].k = "list"
        /\ LET l == out["category"].l
           IN  /\ Len(l) >= 1
               /\ \A a, b \in DOMAIN l : a # b => l[a] # l[b]
               /\ \A a \in DOMAIN l :
                     /\ \A c \in DOMAIN l[a] : l[a][c] \notin Range(UpperChars)
                     /\ l[a] \notin DOMAIN CATEGORY_MAP
               /\ IF cat = None \/ cat = Str(<<>>) \/ cat = List(<<>>)
                  THEN l = <<S_uncategorized>>
                  ELSE Range(l) = {NormalizeOne(given[c]) : c \in DOMAIN given}

C10_CategoryInvariant ==
    /\ \A j \in DOMAIN enhanced : CategoryNormalized(data[j], enhanced[j].item)
    /\ \A j \in DOMAIN output : CategoryNormalized(data[j], output[j].item)

\* A catalog is written in which the three categories of ToolMulti, two of
\* them synonyms, have become two.
C10_Witness ==
    /\ pc = "done"
    /\ \E j \in DOMAIN data :
          /\ data[j] = ToolMulti
          /\ Len(output[j].item["category"].l) = 2

\* C11: what normalize_category returns for its own result holds the same
\* strings as that result, and what it returns for a list in another order
\* holds the same strings as what it returns for the list.
C11_NormalizeIdempotent ==
    /\ fn = "normalize_category_again" =>
          Range(results[2].l) = Range(results[1].l)
    /\ fn = "normalize_category_reordered" =>
          \A out \in normalize_category(arg) :
              Range(results[1].l) = Range(out.l)

\* Two spellings of one synonym were normalized to ["termux"], and that
\* list normalized again to ["termux"].
C11_Witness ==
    /\ fn = "normalize_category_again"
    /\ arg = List(<<S_Termux_OS, S_termux_os>>)
    /\ results = <<List(<<S_termux>>), List(<<S_termux>>)>>

\* s without the suffix suf, s itself when it does not end in suf.
RemoveSuffix(s, suf) ==
    IF /\ Len(s) >= Len(suf)
       /\ SubSeq(s, Len(s) - Len(suf) + 1, Len(s)) = suf
    THEN SubSeq(s, 1, Len(s) - Len(suf))
    ELSE s

\* The host of a URL given to parse_repo_info, empty for None.
HostOf(url) == IF Truthy(url) THEN urlparse(url.s).netloc ELSE <<>>

\* C12: for a URL whose host is github.com parse_repo_info returns the
\* path of the URL without its leading and trailing slashes and without a
\* ".git" suffix, every other character kept; for a URL whose host is
\* gitlab.com the same with every "/" replaced by "%2F".
C12_PathNormalized ==
    (fn = "parse_repo_info" /\ HostOf(arg) \in {S_github_com, S_gitlab_com}) =>
        LET p == RemoveSuffix(StripChars(urlparse(arg.s).path, {"/"}), S_dot_git)
        IN  results[1].path =
                IF HostOf(arg) = S_github_com
                THEN Str(p)
                ELSE Str(Replace(p, <<"/">>, S_pct2F))

\* C13: parse_repo_info returns "github" exactly for the URLs whose host is
\* github.com and "gitlab" exactly for those whose host is gitlab.com; for
\* None, the empty string and every other host it returns (None, None).
C13_HostClassification ==
    fn = "parse_repo_info" =>
        results[1] =
            IF HostOf(arg) = S_github_com
            THEN [platform |-> "github", path |-> results[1].path]
            ELSE IF HostOf(arg) = S_gitlab_com
            THEN [platform |-> "gitlab", path |-> results[1].path]
            ELSE [platform |-> "none", path |-> None]

\* The tools whose version update_versions.py has rewritten.
Rewritten == {j \in DOMAIN tools : tools[j] # loaded[j]}

\* The version of a tool was rewritten only to a non-empty tag that a 200
\* response to the request for that tool carried and that differs from the
\* version read; nothing else of the tool has changed; the file is written at
\* most once, and never unless a version was rewritten.
RewriteOnlyWhenFetched ==
    /\ \A j \in Rewritten :
          \E g \in DOMAIN gets :
              /\ gets[g].tool = j
              /\ gets[g].response.status_code = 200
              /\ gets[g].response.body.k = "dict"
              /\ LET tag == Get(gets[g].response.body.d, "tag_name", None)
                 IN  /\ tag.k = "str"
                     /\ Len(tag.s) > 0
                     /\ tag # loaded[j]["version"]
                     /\ tools[j] = [loaded[j] EXCEPT !["version"] = tag]
    /\ saved <= 1
    /\ saved = 1 => Rewritten # {}

S_https_github_com == <<"h", "t", "t", "p", "s", ":", "/", "/", "g", "i", "t", "h", "u", "b", ".", "c", "o", "m", "/">>
S_https_api_github_com_repos == <<"h", "t", "t", "p", "s", ":", "/", "/", "a", "p", "i", ".", "g", "i", "t", "h", "u", "b", ".", "c", "o", "m", "/", "r", "e", "p", "o", "s", "/">>

\* C15: for a tool whose URL is https://github.com/<owner>/<repo> with or
\* without ".git" at its end, the URL requested is
\* https://api.github.com/repos/<owner>/<repo>/releases/latest.
C15_RequestTarget ==
    \A g \in DOMAIN gets :
        LET url == loaded[gets[g].tool]["url"].s
            n == Len(S_https_github_com)
        IN  (Len(url) > n /\ SubSeq(url, 1, n) = S_https_github_com) =>
                gets[g].api_url =
                    S_https_api_github_com_repos
                        \o RemoveSuffix(SubSeq(url, n + 1, Len(url)), S_dot_git)
                        \o S_releases_latest

\* No file is written before the loop is over, the file is written at most
\* once, and what is written is the whole output dictionary.
NoWriteBeforeEnd ==
    /\ writes = IF pc = "done" THEN 1 ELSE 0
    /\ writes = 1 =>
          /\ i = Len(data) + 1
          /\ Len(enhanced) = Len(data)
          /\ output = enhanced

\* C16: in every run the output file is written exactly once, after every
\* entry has been processed, and never while entries remain.
C16_SingleWriteAtEnd == []NoWriteBeforeEnd /\ <>[](writes = 1)

\* A catalog of two entries was written after both were processed.
C16_Witness ==
    /\ pc = "done"
    /\ writes = 1
    /\ Len(data) = 2
    /\ Len(output) = 2

\* The fields enhance_data may change.
TouchedFields == {"category", "version", "stars", "forks", "license", "archived"}

\* C17: the record of every enriched entry has, besides the fields
\* category, version, stars, forks, license and archived, exactly the fields
\* of the input record, each with its input value; the catalog written has
\* the entries of the input, none more and none less.
C17_FrameOfEnrichment ==
    /\ \A j \in DOMAIN enhanced :
          Occurrences(fetched, Keys[j]) = 1 =>
              /\ enhanced[j].key = Keys[j]
              /\ DOMAIN enhanced[j].item \ TouchedFields
                    = DOMAIN data[j] \ TouchedFields
              /\ \A f \in DOMAIN data[j] \ TouchedFields :
                    enhanced[j].item[f] = data[j][f]
    /\ pc = "done" =>
          /\ output = enhanced
          /\ [j \in DOMAIN output |-> output[j].key] = SubSeq(Keys, 1, Len(data))

\* The test's ToolA was enriched and written with its package_name, url,
\* package_manager and dependency as read.
C17_Witness ==
    /\ pc = "done"
    /\ Len(data) >= 1
    /\ data[1] = ToolA
    /\ output[1].item["stars"] = Num(42)
    /\ output[1].item["package_name"] = ToolA["package_name"]
    /\ output[1].item["dependency"] = ToolA["dependency"]

\* C18: when retry_request returns, the k-th sleep of the call (k = 0, 1,
\* ...) lasted DefaultWait * 2^k seconds, and every sleep was followed by
\* another GET: the call has slept once less than it has sent GETs.
C18_BackoffOnlyBeforeRetry ==
    pc \in {"repo_done", "rel_done"} =>
        LET sleeps == SelectSeq(log, LAMBDA e : e.ev = "sleep")
        IN  /\ \A k \in DOMAIN sleeps : sleeps[k].secs = DefaultWait * 2^(k - 1)
            /\ Len(sleeps) = Len(GetCodes) - 1
            /\ log[Len(log)].ev = "get"

\* Is rl a 200 response whose body is a JSON object?
OkObject(rl) ==
    /\ rl.k = "response"
    /\ rl.status_code = 200
    /\ rl.body.k = "dict"

\* C19: the release request is made only after a 200 repository response
\* with a JSON object; whatever comes back for it, the fetcher then returns
\* to enhance_data, with no cooldown sleep and no restart; stars, forks,
\* license and archived of the meta returned are those of the repository
\* document, and latest_version is the tag_name of a 200 release response
\* with a JSON object, None otherwise.
C19_ReleaseIsSecondary ==
    /\ (req = "rel" /\ pc \in {"get", "backoff", "rel_done", "merge"}) =>
          /\ platform = "github"
          /\ OkObject(r)
          /\ cooldowns = 0
          /\ \A j \in DOMAIN log :
                log[j].ev = "sleep" => log[j].secs # RATE_LIMIT_WAIT
          /\ \A f \in {"stars", "forks", "license", "archived"} :
                meta[f] = GithubFields(InitialMeta, r.body)[f]
    /\ rel # Unset =>
          /\ pc \in {"rel_done", "merge"}
          /\ req = "rel"
    /\ (req = "rel" /\ pc = "merge") =>
          meta["latest_version"] =
              IF OkObject(rel) THEN Get(rel.body.d, "tag_name", None) ELSE None
    /\ (pc = "merge" /\ meta["latest_version"] # None) => OkObject(rel)

\* fetch_github_meta has returned the test's repository fields after the
\* release request was answered 403 with X-RateLimit-Remaining "0".
C19_Witness ==
    /\ pc = "merge"
    /\ req = "rel"
    /\ rel.k = "response"
    /\ rel.status_code = 403
    /\ rel.remaining = Str(S_0)
    /\ meta["stars"] = Num(42)
    /\ meta["license"] = Str(S_MIT)
    /\ meta["latest_version"] = None

====
